---- MODULE Spec2Model ----
(***************************************************************************)
(* longhair-rs: the Cauchy session (src/src/lib.rs) over the native        *)
(* cauchy_256 transforms declared in src/src/bindings.rs.                  *)
(*                                                                         *)
(* A block's bytes are kept run-length encoded: a sequence of runs         *)
(* [n |-> count, v |-> byte], so that a block of 2^32 + 8 bytes is a value *)
(* the model can hold.  The transforms are byte-wise, and are computed     *)
(* byte-wise over the runs.                                                *)
(***************************************************************************)
EXTENDS Integers, Sequences, FiniteSets, TLC

(***************************************************************************)
(* Machine integers.  A u32 or usize value is kept as two limbs,           *)
(* hi * 2^16 + lo, since the values of interest (2^32 - 1, a length of     *)
(* 2^32 + 8) exceed what one model integer holds.  A u8 and an i32 (the C  *)
(* int of bindings.rs) are plain integers.  The casts are those of lib.rs: *)
(* `as u8` (152), `as u32` (60, 172), `as i32` (112-116, 165), and the u32 *)
(* addition of line 147.                                                   *)
(***************************************************************************)
Limb == 256 * 256

W(n) == [hi |-> n \div Limb, lo |-> n % Limb]

WBig(h, l) == [hi |-> h, lo |-> l]

WIsZero(a) == a.hi = 0 /\ a.lo = 0

WLess(a, b) == a.hi < b.hi \/ (a.hi = b.hi /\ a.lo < b.lo)

WAdd(a, b) ==
    LET s == a.lo + b.lo IN [hi |-> a.hi + b.hi + (s \div Limb), lo |-> s % Limb]

\* a - b, for b <= a
WSub(a, b) ==
    IF a.lo >= b.lo THEN [hi |-> a.hi - b.hi, lo |-> a.lo - b.lo]
    ELSE [hi |-> a.hi - b.hi - 1, lo |-> a.lo + Limb - b.lo]

\* the plain integer of a value below 2^31
WPlain(a) == (a.hi * Limb) + a.lo

WFitsU32(a) == a.hi < Limb

AsU8(a) == a.lo % 256

AsU32(a) == [hi |-> a.hi % Limb, lo |-> a.lo]

AsI32(a) ==
    LET h == a.hi % Limb
    IN  IF h >= Limb \div 2 THEN ((h - Limb) * Limb) + a.lo ELSE (h * Limb) + a.lo

U32Max == WBig(Limb - 1, Limb - 1)

(***************************************************************************)
(* A block's bytes: runs [n |-> count (two limbs, > 0), v |-> byte], no    *)
(* two neighbours of one value.                                            *)
(***************************************************************************)
Filled(len, v) == IF WIsZero(len) THEN <<>> ELSE <<[n |-> len, v |-> v]>>

RECURSIVE ByteLen(_)
ByteLen(c) == IF c = <<>> THEN W(0) ELSE WAdd(c[1].n, ByteLen(Tail(c)))

\* the byte at offset off (a plain integer); 0 past the end
RECURSIVE ByteAt(_, _)
ByteAt(c, off) ==
    IF c = <<>> THEN 0
    ELSE IF WLess(W(off), c[1].n) THEN c[1].v
    ELSE ByteAt(Tail(c), off - WPlain(c[1].n))

\* the offsets in (from, upto) at which a run of c ends
RECURSIVE RunEnds(_, _, _)
RunEnds(c, from, upto) ==
    IF c = <<>> \/ ~WLess(c[1].n, W(upto - from)) THEN {}
    ELSE LET e == from + WPlain(c[1].n) IN {e} \cup RunEnds(Tail(c), e, upto)

\* c without its first cnt bytes
RECURSIVE DropBytes(_, _)
DropBytes(c, cnt) ==
    IF c = <<>> \/ cnt = 0 THEN c
    ELSE IF WLess(W(cnt), c[1].n)
         THEN <<[n |-> WSub(c[1].n, W(cnt)), v |-> c[1].v]>> \o Tail(c)
         ELSE DropBytes(Tail(c), cnt - WPlain(c[1].n))

RECURSIVE Normalize(_)
Normalize(c) ==
    IF Len(c) < 2 THEN c
    ELSE IF c[1].v = c[2].v
         THEN Normalize(<<[n |-> WAdd(c[1].n, c[2].n), v |-> c[1].v]>> \o Tail(Tail(c)))
         ELSE <<c[1]>> \o Normalize(Tail(c))

\* the ascending sequence of a finite set of integers
RECURSIVE SortedSeq(_)
SortedSeq(S) ==
    IF S = {} THEN <<>>
    ELSE LET x == CHOOSE y \in S : \A z \in S : y <= z
         IN  <<x>> \o SortedSeq(S \ {x})

\* runs for the first bb bytes, byte p being val[p], val constant between cuts
PrefixRuns(cuts, bb, val(_)) ==
    LET pts == SortedSeq((cuts \cup {0}) \ {bb})
    IN  [i \in 1..Len(pts) |->
            [n |-> W((IF i = Len(pts) THEN bb ELSE pts[i + 1]) - pts[i]),
             v |-> val(pts[i])]]

\* c with its first bb bytes replaced
WritePrefix(c, bb, cuts, val(_)) ==
    Normalize(PrefixRuns(cuts, bb, val) \o DropBytes(c, bb))

(***************************************************************************)
(* GF(256): the field of the native library (spec 4.1).  Addition is xor;  *)
(* multiplication, division and inverse go through the exp/log tables of   *)
(* the generator.                                                          *)
(***************************************************************************)
GFPoly == 285

RECURSIVE Xor(_, _)
Xor(a, b) ==
    IF a = 0 THEN b
    ELSE IF b = 0 THEN a
    ELSE (((a % 2) + (b % 2)) % 2) + (2 * Xor(a \div 2, b \div 2))

\* x^i, i = 0..254, at position i + 1
GFExpTable ==
    <<
         1,   2,   4,   8,  16,  32,  64, 128,  29,  58, 116, 232, 205, 135,  19,  38,
        76, 152,  45,  90, 180, 117, 234, 201, 143,   3,   6,  12,  24,  48,  96, 192,
       157,  39,  78, 156,  37,  74, 148,  53, 106, 212, 181, 119, 238, 193, 159,  35,
        70, 140,   5,  10,  20,  40,  80, 160,  93, 186, 105, 210, 185, 111, 222, 161,
        95, 190,  97, 194, 153,  47,  94, 188, 101, 202, 137,  15,  30,  60, 120, 240,
       253, 231, 211, 187, 107, 214, 177, 127, 254, 225, 223, 163,  91, 182, 113, 226,
       217, 175,  67, 134,  17,  34,  68, 136,  13,  26,  52, 104, 208, 189, 103, 206,
       129,  31,  62, 124, 248, 237, 199, 147,  59, 118, 236, 197, 151,  51, 102, 204,
       133,  23,  46,  92, 184, 109, 218, 169,  79, 158,  33,  66, 132,  21,  42,  84,
       168,  77, 154,  41,  82, 164,  85, 170,  73, 146,  57, 114, 228, 213, 183, 115,
       230, 209, 191,  99, 198, 145,  63, 126, 252, 229, 215, 179, 123, 246, 241, 255,
       227, 219, 171,  75, 150,  49,  98, 196, 149,  55, 110, 220, 165,  87, 174,  65,
       130,  25,  50, 100, 200, 141,   7,  14,  28,  56, 112, 224, 221, 167,  83, 166,
        81, 162,  89, 178, 121, 242, 249, 239, 195, 155,  43,  86, 172,  69, 138,   9,
        18,  36,  72, 144,  61, 122, 244, 245, 247, 243, 251, 235, 203, 139,  11,  22,
        44,  88, 176, 125, 250, 233, 207, 131,  27,  54, 108, 216, 173,  71, 142 >>

\* the discrete logarithm of a = 1..255, at position a
GFLogTable ==
    <<
         0,   1,  25,   2,  50,  26, 198,   3, 223,  51, 238,  27, 104, 199,  75,   4,
       100, 224,  14,  52, 141, 239, 129,  28, 193, 105, 248, 200,   8,  76, 113,   5,
       138, 101,  47, 225,  36,  15,  33,  53, 147, 142, 218, 240,  18, 130,  69,  29,
       181, 194, 125, 106,  39, 249, 185, 201, 154,   9, 120,  77, 228, 114, 166,   6,
       191, 139,  98, 102, 221,  48, 253, 226, 152,  37, 179,  16, 145,  34, 136,  54,
       208, 148, 206, 143, 150, 219, 189, 241, 210,  19,  92, 131,  56,  70,  64,  30,
        66, 182, 163, 195,  72, 126, 110, 107,  58,  40,  84, 250, 133, 186,  61, 202,
        94, 155, 159,  10,  21, 121,  43,  78, 212, 229, 172, 115, 243, 167,  87,   7,
       112, 192, 247, 140, 128,  99,  13, 103,  74, 222, 237,  49, 197, 254,  24, 227,
       165, 153, 119,  38, 184, 180, 124,  17,  68, 146, 217,  35,  32, 137,  46,  55,
        63, 209,  91, 149, 188, 207, 205, 144, 135, 151, 178, 220, 252, 190,  97, 242,
        86, 211, 171,  20,  42,  93, 158, 132,  60,  57,  83,  71, 109,  65, 162,  31,
        45,  67, 216, 183, 123, 164, 118, 196,  23,  73, 236, 127,  12, 111, 246, 108,
       161,  59,  82,  41, 157,  85, 170, 251,  96, 134, 177, 187, 204,  62,  90, 203,
        89,  95, 176, 156, 169, 160,  81,  11, 245,  22, 235, 122, 117,  44, 215,  79,
       174, 213, 233, 230, 231, 173, 232, 116, 214, 244, 234, 168,  80,  88, 175 >>

\* multiplication by x, reduced by the field polynomial
GFTimesX(a) == IF 2 * a >= 256 THEN Xor(2 * a, GFPoly) ELSE 2 * a

GFAdd(a, b) == Xor(a, b)

GFMul(a, b) ==
    IF a = 0 \/ b = 0 THEN 0
    ELSE GFExpTable[((GFLogTable[a] + GFLogTable[b]) % 255) + 1]

GFDiv(a, b) ==
    IF a = 0 THEN 0
    ELSE GFExpTable[((GFLogTable[a] - GFLogTable[b] + 255) % 255) + 1]

GFInverse(a) == GFExpTable[((255 - GFLogTable[a]) % 255) + 1]

(***************************************************************************)
(* The (m x k) Cauchy matrix (spec 4.2): data column j is field element j, *)
(* recovery row i is field element k + i.                                  *)
(***************************************************************************)
CauchyElement(k, i, j) == GFInverse(Xor(k + i, j))

\* the xor of the bytes f[1], ..., f[n]
RECURSIVE XorAll(_, _)
XorAll(f, n) == IF n = 0 THEN 0 ELSE Xor(f[n], XorAll(f, n - 1))

(***************************************************************************)
(* Gaussian elimination over GF(256) (spec 4.4, step 3).  M is a sequence  *)
(* of e rows of e coefficients and a right-hand side; column c is reduced  *)
(* with the first remaining row whose entry is non-zero.  The result is    *)
(* the solved rows, or <<>> when no pivot is found.                        *)
(***************************************************************************)
RECURSIVE GFEliminate(_, _)
GFEliminate(M, c) ==
    LET e == Len(M) IN
    IF c > e THEN M
    ELSE LET cand == {r \in c..e : M[r][c] # 0} IN
         IF cand = {} THEN <<>>
         ELSE LET p    == CHOOSE r \in cand : \A q \in cand : r <= q
                  prow == [x \in 1..(e + 1) |-> GFDiv(M[p][x], M[p][c])]
                  Sw   == [r \in 1..e |-> IF r = c THEN prow
                                          ELSE IF r = p THEN M[c] ELSE M[r]]
                  Red  == [r \in 1..e |->
                             IF r = c THEN prow
                             ELSE [x \in 1..(e + 1) |->
                                     GFAdd(Sw[r][x], GFMul(Sw[r][c], prow[x]))]]
              IN  GFEliminate(Red, c + 1)

(***************************************************************************)
(* The native transforms (declared in bindings.rs 12-22, spec 4.3, 4.4).   *)
(* mem maps a pointer to the bytes it points at.                           *)
(***************************************************************************)
NativeArgsOk(k, m, block_bytes) ==
    /\ k >= 1
    /\ m >= 0
    /\ k + m <= 256
    /\ block_bytes >= 1
    /\ block_bytes % 8 = 0

MemAt(mem, p) == IF p \in DOMAIN mem THEN mem[p] ELSE <<>>

cauchy_256_encode(k, m, data_ptrs, recovery_blocks, block_bytes, mem) ==
    IF ~NativeArgsOk(k, m, block_bytes) THEN [ret |-> -1, mem |-> mem]
    ELSE
      LET cuts == UNION {RunEnds(MemAt(mem, data_ptrs[j]), 0, block_bytes) : j \in 1..k}
          Sym(i, p) ==
              XorAll([j \in 1..k |->
                        GFMul(CauchyElement(k, i - 1, j - 1),
                              ByteAt(MemAt(mem, data_ptrs[j]), p))], k)
          Out(i) == WritePrefix(MemAt(mem, recovery_blocks[i]), block_bytes, cuts,
                                LAMBDA p : Sym(i, p))
          targets == {recovery_blocks[i] : i \in 1..m}
      IN  [ret |-> 0,
           mem |-> [a \in DOMAIN mem \cup targets |->
                      IF a \in targets
                      THEN Out(CHOOSE i \in 1..m : recovery_blocks[i] = a)
                      ELSE mem[a]]]

cauchy_256_decode(k, m, blocks, block_bytes, mem) ==
    LET fail == [ret |-> -1, blocks |-> blocks, mem |-> mem] IN
    IF ~NativeArgsOk(k, m, block_bytes) THEN fail
    ELSE IF \E i \in 1..k : blocks[i].row >= k + m THEN fail
    ELSE IF \E i, j \in 1..k : i # j /\ blocks[i].row = blocks[j].row THEN fail
    ELSE
      LET present == {blocks[i].row : i \in 1..k}
          missing == SortedSeq((0..(k - 1)) \ present)
          recpos  == SortedSeq({i \in 1..k : blocks[i].row >= k})
          e       == Len(missing)
          PosOf(j) == CHOOSE i \in 1..k : blocks[i].row = j
          cuts == UNION {RunEnds(MemAt(mem, blocks[i].data), 0, block_bytes) : i \in 1..k}
          At(i, p) == ByteAt(MemAt(mem, blocks[i].data), p)
          \* recovery row r's right-hand side at byte p, the known data rows removed
          Rhs(r, p) ==
              Xor(At(recpos[r], p),
                  XorAll([j \in 1..k |->
                            IF (j - 1) \in present
                            THEN GFMul(CauchyElement(k, blocks[recpos[r]].row - k, j - 1),
                                       At(PosOf(j - 1), p))
                            ELSE 0], k))
          System(p) ==
              [r \in 1..e |->
                 [x \in 1..(e + 1) |->
                    IF x <= e
                    THEN CauchyElement(k, blocks[recpos[r]].row - k, missing[x])
                    ELSE Rhs(r, p)]]
          Solved(p) == GFEliminate(System(p), 1)
          Idx(i) == CHOOSE r \in 1..e : recpos[r] = i
      IN  IF e > 0 /\ Solved(0) = <<>> THEN fail
          ELSE
            [ret |-> 0,
             blocks |-> [i \in 1..Len(blocks) |->
                           IF i <= k /\ blocks[i].row >= k
                           THEN [row |-> missing[Idx(i)], data |-> blocks[i].data]
                           ELSE blocks[i]],
             mem |-> [a \in DOMAIN mem |->
                        IF \E i \in 1..k : blocks[i].row >= k /\ blocks[i].data = a
                        THEN LET i == CHOOSE i \in 1..k : blocks[i].row >= k /\ blocks[i].data = a
                             IN  WritePrefix(mem[a], block_bytes, cuts,
                                             LAMBDA p : Solved(p)[Idx(i)][e + 1])
                        ELSE mem[a]]]

(***************************************************************************)
(* The session (lib.rs 24-29) and its two calls.  A caller's block is      *)
(* [ptr, bytes]; a tagged block (AsBlock, lib.rs 17-22) is                 *)
(* [index, ptr, bytes].  A call yields the session as the call leaves it,  *)
(* the caller's blocks as it leaves them, how it ended ("ok" or the        *)
(* panic) and what the native transform was handed, if it was invoked.     *)
(***************************************************************************)
NoCall == [fn |-> "none"]

MAX_K_LIMIT == 256

PanicMaxK == "k must be <= 256"
PanicNumBlocks == "num blocks must be <= max_k"
PanicSameSize == "all blocks must have the same size"
PanicDataBlockSize == "the size of data blocks cannot be zero and must be a multiple of 8"
PanicBlockSize == "the size of blocks cannot be zero and must be a multiple of 8"
PanicUnwrap == "called Option::unwrap() on a None value"
PanicEncode == "cauchy encode failed!"
PanicKMaxK == "k must be <= max_k"
PanicBlocksLen == "blocks len must be the same as k"
PanicRow == "block number cannot be >= k + m"
PanicOverflow == "attempt to add with overflow"
PanicDecode == "cauchy decode failed!"
PanicInit == "cauchy initialize failed!"
PanicPoisoned == "Once instance has previously been poisoned"

\* Vec::clear (lib.rs 70, 91, 133)
Clear(v) == <<>>

\* the first index in 1..n at which Bad holds, or 0
FirstBad(n, Bad(_)) ==
    IF \E i \in 1..n : Bad(i) THEN CHOOSE i \in 1..n : Bad(i) /\ \A j \in 1..(i - 1) : ~Bad(j)
    ELSE 0

\* the count held against the limit of Cauchy::new instead of the session's max_k
TooManyBlocksForAnySession(self, blocks) == WLess(W(MAX_K_LIMIT), AsU32(W(Len(blocks))))

\* lib.rs 60
TooManyBlocks(self, blocks) == WLess(self.max_k, AsU32(W(Len(blocks))))

\* lib.rs 87, 158
BadBlockBytes(block_bytes) == WIsZero(block_bytes) \/ block_bytes.lo % 8 # 0

\* the memory a call hands over: what each pointer of the call points at
CallMem(bufs) == [a \in {bufs[i].ptr : i \in 1..Len(bufs)} |->
                    bufs[CHOOSE i \in 1..Len(bufs) : bufs[i].ptr = a].bytes]

encode(self, blocks, recovery_blocks) ==
    LET n    == Len(blocks)
        r    == Len(recovery_blocks)
        keep == [sess |-> self, blocks |-> blocks, recovery_blocks |-> recovery_blocks,
                 native |-> NoCall, result |-> "ok"]
    IN
    IF TooManyBlocks(self, blocks) THEN [keep EXCEPT !.result = PanicNumBlocks]
    ELSE
    LET bad  == FirstBad(n, LAMBDA i : ByteLen(blocks[i].bytes) # ByteLen(blocks[1].bytes))
        pushed == IF bad = 0 THEN n ELSE bad - 1
        s1   == [self EXCEPT !.block_ptrs =
                    Clear(@) \o [i \in 1..pushed |-> blocks[i].ptr]]
    IN
    IF bad # 0 THEN [keep EXCEPT !.sess = s1, !.result = PanicSameSize]
    ELSE IF n = 0 THEN [keep EXCEPT !.sess = s1, !.result = PanicUnwrap]
    ELSE
    LET block_bytes == ByteLen(blocks[1].bytes) IN
    IF BadBlockBytes(block_bytes)
    THEN [keep EXCEPT !.sess = s1, !.result = PanicDataBlockSize]
    ELSE
    LET badr == FirstBad(r, LAMBDA i : block_bytes # ByteLen(recovery_blocks[i].bytes))
        pushedr == IF badr = 0 THEN r ELSE badr - 1
        s2   == [s1 EXCEPT !.recovery_block_ptrs =
                    Clear(@) \o [i \in 1..pushedr |-> recovery_blocks[i].ptr]]
    IN
    IF badr # 0 THEN [keep EXCEPT !.sess = s2, !.result = PanicSameSize]
    ELSE
    LET k_arg == AsI32(W(n))
        m_arg == AsI32(W(Len(s2.recovery_block_ptrs)))
        b_arg == AsI32(block_bytes)
        mem   == CallMem(blocks \o recovery_blocks)
        res   == cauchy_256_encode(k_arg, m_arg, s2.block_ptrs, s2.recovery_block_ptrs,
                                   b_arg, mem)
        call  == [fn |-> "encode", k |-> k_arg, m |-> m_arg, block_bytes |-> b_arg,
                  block_ptrs |-> s2.block_ptrs,
                  recovery_block_ptrs |-> s2.recovery_block_ptrs,
                  native_block_ptrs |-> s2.native_block_ptrs]
    IN  [sess |-> s2,
         blocks |-> [i \in 1..n |-> [blocks[i] EXCEPT !.bytes = res.mem[blocks[i].ptr]]],
         recovery_blocks |-> [i \in 1..r |->
             [recovery_blocks[i] EXCEPT !.bytes = res.mem[recovery_blocks[i].ptr]]],
         native |-> call,
         result |-> IF res.ret # 0 THEN PanicEncode ELSE "ok"]

\* lib.rs 152: the native row of a tag
RowOf(index) == AsU8(index)

\* lib.rs 147: k + m in u32; a build with overflow checks panics when it wraps
Overflows(k, m) == ~WFitsU32(WAdd(k, m))

RowBound(k, m) == AsU32(WAdd(k, m))

\* `>` for `>=`
RowOutOfRangeStrict(index, k, m) == WLess(RowBound(k, m), index)

\* lib.rs 147: the tag is no row of the (k, m) code
RowOutOfRange(index, k, m) == ~WLess(index, RowBound(k, m))

\* the write-back loop placed before the check of the result
WritesBackAlways(result) == TRUE

\* lib.rs 167-171: the tags are written back once the transform reported success
WritesBack(result) == result = 0

\* rows taken as one-based
IndexOfOneBased(native_block) == W(native_block.row + 1)

\* lib.rs 172: the tag written back from a native entry
IndexOf(native_block) == W(native_block.row)

decode(self, k, m, blocks, overflow_checks) ==
    LET n    == Len(blocks)
        keep == [sess |-> self, blocks |-> blocks, native |-> NoCall, result |-> "ok"]
    IN
    IF WLess(self.max_k, k) THEN [keep EXCEPT !.result = PanicKMaxK]
    ELSE IF W(n) # k THEN [keep EXCEPT !.result = PanicBlocksLen]
    ELSE
    LET Step(i) ==
            IF ByteLen(blocks[i].bytes) # ByteLen(blocks[1].bytes) THEN PanicSameSize
            ELSE IF Overflows(k, m) /\ overflow_checks THEN PanicOverflow
            ELSE IF RowOutOfRange(blocks[i].index, k, m) THEN PanicRow
            ELSE "ok"
        bad  == FirstBad(n, LAMBDA i : Step(i) # "ok")
        pushed == IF bad = 0 THEN n ELSE bad - 1
        s1   == [self EXCEPT !.native_block_ptrs =
                    Clear(@) \o [i \in 1..pushed |->
                                   [row |-> RowOf(blocks[i].index), data |-> blocks[i].ptr]]]
    IN
    IF bad # 0 THEN [keep EXCEPT !.sess = s1, !.result = Step(bad)]
    ELSE IF n = 0 THEN [keep EXCEPT !.sess = s1, !.result = PanicUnwrap]
    ELSE
    LET block_bytes == ByteLen(blocks[1].bytes) IN
    IF BadBlockBytes(block_bytes)
    THEN [keep EXCEPT !.sess = s1, !.result = PanicBlockSize]
    ELSE
    LET k_arg == AsI32(k)
        m_arg == AsI32(m)
        b_arg == AsI32(block_bytes)
        res   == cauchy_256_decode(k_arg, m_arg, s1.native_block_ptrs, b_arg,
                                   CallMem(blocks))
        call  == [fn |-> "decode", k |-> k_arg, m |-> m_arg, block_bytes |-> b_arg,
                  block_ptrs |-> s1.block_ptrs,
                  recovery_block_ptrs |-> s1.recovery_block_ptrs,
                  native_block_ptrs |-> s1.native_block_ptrs]
        s2    == [s1 EXCEPT !.native_block_ptrs = res.blocks]
        zip   == IF n < Len(s2.native_block_ptrs) THEN n ELSE Len(s2.native_block_ptrs)
    IN  [sess |-> s2,
         blocks |-> [i \in 1..n |->
             [index |-> IF WritesBack(res.ret) /\ i <= zip
                        THEN IndexOf(s2.native_block_ptrs[i]) ELSE blocks[i].index,
              ptr   |-> blocks[i].ptr,
              bytes |-> res.mem[blocks[i].ptr]]],
         native |-> call,
         result |-> IF res.ret # 0 THEN PanicDecode ELSE "ok"]

(***************************************************************************)
(* The process: the Once guard and the field tables behind it (lib.rs 15,  *)
(* 37-41), the threads inside Cauchy::new, the session each thread holds,  *)
(* and the call a thread has just made.                                    *)
(***************************************************************************)
VARIABLES
    once,          \* CAUCHY_INITIALIZED: "incomplete", "running", "complete", "poisoned"
    tables,        \* the native field tables: "unbuilt", "building", "built"
    init_calls,    \* how often _cauchy_256_init was entered
    pc,            \* per thread: where it is in Cauchy::new, or "idle" / "returned"
    arg,           \* per thread: the max_k of the Cauchy::new it is in
    sessions,      \* per thread: the Cauchy it holds, or NoSession
    last,          \* the call that has just returned to its caller
    rt             \* the encode_decode test's own locals (lib.rs 239-267)

vars == <<once, tables, init_calls, pc, arg, sessions, last, rt>>

NumThreads == 3
MaxBlocks == 2

Threads == 1..NumThreads
\* the thread whose session serves the calls
Main == CHOOSE t \in Threads : \A u \in Threads : t <= u

NoSession == [max_k |-> W(0), live |-> FALSE]

CAUCHY_256_VERSION == 2

NoLast == [op |-> "none", k |-> W(0), m |-> W(0), in_blocks |-> <<>>,
           in_recovery |-> <<>>, blocks |-> <<>>, recovery_blocks |-> <<>>,
           result |-> "ok", native |-> NoCall]

NoTest == [pc |-> "off"]

MaxKArgs == {W(1), W(MAX_K_LIMIT), W(MAX_K_LIMIT + 1)}

Init ==
    /\ once = "incomplete"
    /\ tables = "unbuilt"
    /\ init_calls = 0
    /\ pc = [t \in Threads |-> "idle"]
    /\ arg = [t \in Threads |-> W(0)]
    /\ sessions = [t \in Threads |-> NoSession]
    /\ last = NoLast
    /\ rt = NoTest

(***************************************************************************)
(* Cauchy::new (lib.rs 32-49), one step per line that another thread can   *)
(* observe.                                                                *)
(***************************************************************************)
\* the library's own version check (spec 6, 7: initialization failure)
_cauchy_256_init(expected_version) ==
    IF expected_version = CAUCHY_256_VERSION THEN 0 ELSE -1

\* lib.rs 33
MaxKTooLarge(max_k) == WLess(W(MAX_K_LIMIT), max_k)

\* a guard that only asks whether the tables are done
OnceRunsUnlessComplete(state) == state # "complete"

\* Once::call_once (lib.rs 37): the caller runs the closure
OnceRuns(state) == state = "incomplete"

\* Once::call_once (lib.rs 37): the caller may go on past the guard
OncePasses(state) == state = "complete"

\* lib.rs 33-35: the bound on max_k
NewEnter(t, max_k) ==
    /\ pc[t] = "idle"
    /\ last.op = "none"
    /\ IF MaxKTooLarge(max_k)
       THEN /\ last' = [NoLast EXCEPT !.op = "new", !.k = max_k, !.result = PanicMaxK]
            /\ pc' = [pc EXCEPT ![t] = "returned"]
            /\ UNCHANGED arg
       ELSE /\ pc' = [pc EXCEPT ![t] = "call_once"]
            /\ arg' = [arg EXCEPT ![t] = max_k]
            /\ UNCHANGED last
    /\ UNCHANGED <<once, tables, init_calls, sessions, rt>>

\* lib.rs 37: entering the guard; a thread that finds it running waits
CallOnce(t) ==
    /\ pc[t] = "call_once"
    /\ OnceRuns(once) \/ OncePasses(once) \/ once = "poisoned"
    /\ IF OnceRuns(once)
       THEN /\ once' = "running"
            /\ pc' = [pc EXCEPT ![t] = "init"]
            /\ UNCHANGED last
       ELSE IF OncePasses(once)
       THEN /\ pc' = [pc EXCEPT ![t] = "construct"]
            /\ UNCHANGED <<once, last>>
       ELSE /\ pc' = [pc EXCEPT ![t] = "returned"]
            /\ last' = [NoLast EXCEPT !.op = "new", !.k = arg[t], !.result = PanicPoisoned]
            /\ UNCHANGED once
    /\ UNCHANGED <<tables, init_calls, arg, sessions, rt>>

\* lib.rs 38: the closure calls _cauchy_256_init, which starts on the tables
InitBegin(t) ==
    /\ pc[t] = "init"
    /\ init_calls' = init_calls + 1
    /\ tables' = "building"
    /\ pc' = [pc EXCEPT ![t] = "init_running"]
    /\ UNCHANGED <<once, arg, sessions, last, rt>>

\* lib.rs 38-41: _cauchy_256_init returns; the guard completes, or is poisoned
InitEnd(t) ==
    /\ pc[t] = "init_running"
    /\ IF _cauchy_256_init(CAUCHY_256_VERSION) # 0
       THEN /\ once' = "poisoned"
            /\ tables' = "unbuilt"
            /\ pc' = [pc EXCEPT ![t] = "returned"]
            /\ last' = [NoLast EXCEPT !.op = "new", !.k = arg[t], !.result = PanicInit]
       ELSE /\ once' = "complete"
            /\ tables' = "built"
            /\ pc' = [pc EXCEPT ![t] = "construct"]
            /\ UNCHANGED last
    /\ UNCHANGED <<init_calls, arg, sessions, rt>>

\* lib.rs 43-48
Construct(t) ==
    /\ pc[t] = "construct"
    /\ sessions' = [sessions EXCEPT ![t] =
                      [max_k |-> arg[t], live |-> TRUE, block_ptrs |-> <<>>,
                       recovery_block_ptrs |-> <<>>, native_block_ptrs |-> <<>>]]
    /\ pc' = [pc EXCEPT ![t] = "idle"]
    /\ UNCHANGED <<once, tables, init_calls, arg, last, rt>>

\* the caller takes what the call left and goes on
Resume(t) ==
    /\ pc[t] = "returned"
    /\ pc' = [pc EXCEPT ![t] = "idle"]
    /\ last' = NoLast
    /\ UNCHANGED <<once, tables, init_calls, arg, sessions, rt>>

(***************************************************************************)
(* What callers pass.  Data block i lies at pointer i, recovery buffer i   *)
(* at MaxBlocks + i.  Lengths: one length for all, or 8 with one block of  *)
(* another length.  2^31 and 2^32 + 8 are lengths a 64-bit caller can pass.*)
(***************************************************************************)
Lens == {W(0), W(7), W(8), W(16), WBig(Limb \div 2, 0), WBig(Limb, 8)}

OddLens == {W(0), W(7), W(16)}

Vals == {83, 202}

Fills == {0, 255}

LenShapes(cnt) ==
    {[i \in 1..cnt |-> L] : L \in Lens}
    \cup {[i \in 1..cnt |-> IF i = q THEN L ELSE W(8)] : q \in 1..cnt, L \in OddLens}

EncodeInput(n, r, shape, vals, fill) ==
    [blocks |-> [i \in 1..n |-> [ptr |-> i, bytes |-> Filled(shape[i], vals[i])]],
     recovery_blocks |-> [i \in 1..r |->
         [ptr |-> MaxBlocks + i, bytes |-> Filled(shape[n + i], fill)]]]

EncodeInputs ==
    UNION {
      {EncodeInput(n, r, shape, [i \in 1..n |-> 83], 0) : shape \in LenShapes(n + r)}
      \cup
      {EncodeInput(n, r, [i \in 1..(n + r) |-> L], vals, fill) :
          L \in {W(8), WBig(Limb, 8)}, vals \in [1..n -> Vals], fill \in Fills}
      : n \in 0..MaxBlocks, r \in 0..MaxBlocks}

MVals == {W(0), W(1), W(2), W(300), U32Max}

TagVectors(n) ==
    { [i \in 1..n |-> W(i - 1)],
      [i \in 1..n |-> W(n - i)],
      [i \in 1..n |-> W(n + i - 1)],
      [i \in 1..n |-> IF i = 1 THEN W(n) ELSE W(i - 1)],
      [i \in 1..n |-> IF i = 1 THEN W(n + 1) ELSE W(i - 1)],
      [i \in 1..n |-> IF i = n THEN W(256) ELSE W(i - 1)],
      [i \in 1..n |-> IF i = n THEN U32Max ELSE W(i - 1)],
      [i \in 1..n |-> W(0)] }

DecodeInput(k, m, tags, shape, vals) ==
    [k |-> k, m |-> m,
     blocks |-> [i \in 1..Len(tags) |->
         [index |-> tags[i], ptr |-> i, bytes |-> Filled(shape[i], vals[i])]]]

DecodeInputs ==
    UNION {
      {DecodeInput(k, W(2), [i \in 1..n |-> W(i - 1)], [i \in 1..n |-> W(8)],
                   [i \in 1..n |-> 83]) :
          k \in {W(n + 1), U32Max} \cup (IF n > 0 THEN {W(n - 1)} ELSE {})}
      \cup
      {DecodeInput(W(n), m, tags, [i \in 1..n |-> W(8)], vals) :
          m \in MVals, tags \in TagVectors(n), vals \in {[i \in 1..n |-> 83],
                                                         [i \in 1..n |-> IF i = 1 THEN 202 ELSE 83]}}
      \cup
      {DecodeInput(W(n), W(2), [i \in 1..n |-> W(i - 1)], shape, [i \in 1..n |-> 83]) :
          shape \in LenShapes(n)}
      : n \in 0..MaxBlocks}

(***************************************************************************)
(* The two calls, by the thread that holds the session.  A call borrows    *)
(* its session and its blocks exclusively (&mut self, &mut [B]), so no     *)
(* other thread's step falls inside it.  Whether the u32 sum of line 147    *)
(* panics or wraps is the build's choice (overflow checks on or off); a    *)
(* call in which the sum wraps takes either.                               *)
(***************************************************************************)
Encode(t) ==
    /\ pc[t] = "idle"
    /\ sessions[t].live
    /\ last.op = "none"
    /\ \E inp \in EncodeInputs :
          LET res == encode(sessions[t], inp.blocks, inp.recovery_blocks)
          IN  /\ sessions' = [sessions EXCEPT ![t] = res.sess]
              /\ last' = [op |-> "encode", k |-> W(Len(inp.blocks)),
                          m |-> W(Len(inp.recovery_blocks)),
                          in_blocks |-> inp.blocks, in_recovery |-> inp.recovery_blocks,
                          blocks |-> res.blocks, recovery_blocks |-> res.recovery_blocks,
                          result |-> res.result, native |-> res.native]
    /\ pc' = [pc EXCEPT ![t] = "returned"]
    /\ UNCHANGED <<once, tables, init_calls, arg, rt>>

Decode(t) ==
    /\ pc[t] = "idle"
    /\ sessions[t].live
    /\ last.op = "none"
    /\ \E inp \in DecodeInputs :
       \E overflow_checks \in (IF Overflows(inp.k, inp.m) THEN BOOLEAN ELSE {FALSE}) :
          LET res == decode(sessions[t], inp.k, inp.m, inp.blocks, overflow_checks)
          IN  /\ sessions' = [sessions EXCEPT ![t] = res.sess]
              /\ last' = [op |-> "decode", k |-> inp.k, m |-> inp.m,
                          in_blocks |-> inp.blocks, in_recovery |-> <<>>,
                          blocks |-> res.blocks, recovery_blocks |-> <<>>,
                          result |-> res.result, native |-> res.native]
    /\ pc' = [pc EXCEPT ![t] = "returned"]
    /\ UNCHANGED <<once, tables, init_calls, arg, rt>>

Next ==
    \/ \E max_k \in MaxKArgs : NewEnter(Main, max_k)
    \/ CallOnce(Main)
    \/ InitBegin(Main)
    \/ InitEnd(Main)
    \/ Construct(Main)
    \/ Encode(Main)
    \/ Decode(Main)
    \/ Resume(Main)

Spec == Init /\ [][Next]_vars

NextNew ==
    \E t \in Threads :
        \/ \E max_k \in MaxKArgs : NewEnter(t, max_k)
        \/ CallOnce(t)
        \/ InitBegin(t)
        \/ InitEnd(t)
        \/ Construct(t)
        \/ Resume(t)

SpecNew == Init /\ [][NextNew]_vars

(***************************************************************************)
(* Properties.                                                             *)
(***************************************************************************)
Invoked == last.native.fn # "none"

Failed == last.result # "ok"

Rejected == Failed /\ ~Invoked

IsEncode == last.op = "encode"

IsDecode == last.op = "decode"

\* the lengths of the blocks of the call, data first
CallLens == [i \in 1..(Len(last.in_blocks) + Len(last.in_recovery)) |->
               IF i <= Len(last.in_blocks) THEN ByteLen(last.in_blocks[i].bytes)
               ELSE ByteLen(last.in_recovery[i - Len(last.in_blocks)].bytes)]

BadSizes ==
    /\ Len(last.in_blocks) > 0
    /\ \/ \E i \in 1..Len(CallLens) : CallLens[i] # CallLens[1]
       \/ BadBlockBytes(CallLens[1])

BlockSizeRejection ==
    /\ ((IsEncode \/ IsDecode) /\ BadSizes
          /\ (IsDecode => W(Len(last.in_blocks)) = last.k)
          /\ ~WLess(sessions[Main].max_k, W(Len(last.in_blocks)))) => Rejected
    /\ Invoked =>
          /\ last.native.block_bytes > 0
          /\ last.native.block_bytes % 8 = 0
          /\ \A i \in 1..Len(CallLens) : CallLens[i] = W(last.native.block_bytes)

\* C4: a decode in which some tag is >= k + m fails and does not invoke the
\* native transform.
RowIndexRejection ==
    (IsDecode /\ \E i \in 1..Len(last.in_blocks) :
                    ~WLess(last.in_blocks[i].index, WAdd(last.k, last.m)))
        => Rejected

RowIndexWitness ==
    /\ IsDecode
    /\ last.result = PanicRow
    /\ Len(last.in_blocks) > 1
    /\ WLess(last.in_blocks[1].index, WAdd(last.k, last.m))

DistinctTags ==
    \A i, j \in 1..Len(last.in_blocks) :
        i # j => last.in_blocks[i].index # last.in_blocks[j].index

\* C6: after a successful decode of k blocks with distinct tags in [0, k+m),
\* every block whose tag was < k has the bytes and the tag it had before.
DataRowsUntouched ==
    (IsDecode /\ ~Failed /\ DistinctTags
       /\ \A i \in 1..Len(last.in_blocks) :
              WLess(last.in_blocks[i].index, WAdd(last.k, last.m)))
        => \A i \in 1..Len(last.in_blocks) :
              WLess(last.in_blocks[i].index, last.k)
                 => last.blocks[i] = last.in_blocks[i]

DataRowsWitness ==
    /\ IsDecode
    /\ ~Failed
    /\ \E i, j \in 1..Len(last.in_blocks) :
          /\ WLess(last.in_blocks[i].index, last.k)
          /\ ~WLess(last.in_blocks[j].index, last.k)
          /\ last.blocks[j] # last.in_blocks[j]

ContractPanics ==
    {PanicNumBlocks, PanicSameSize, PanicDataBlockSize, PanicBlockSize, PanicUnwrap,
     PanicKMaxK,
     PanicBlocksLen, PanicRow}

\* C8: a call that fails on a contract violation leaves every block's bytes
\* and tag as they were; decode rewrites tags only after the native transform
\* reported success.
FailureAtomicity ==
    /\ ((IsEncode \/ IsDecode) /\ last.result \in ContractPanics)
          => /\ last.blocks = last.in_blocks
             /\ last.recovery_blocks = last.in_recovery
    /\ (IsDecode /\ Failed)
          => \A i \in 1..Len(last.in_blocks) :
                last.blocks[i].index = last.in_blocks[i].index

FailureWitness ==
    /\ IsDecode
    /\ last.result = PanicRow
    /\ sessions[Main].native_block_ptrs # <<>>
    /\ \E i \in 1..Len(last.in_blocks) : ~WLess(last.in_blocks[i].index, last.k)

\* C9: when the native transform is invoked the pointer tables hold exactly
\* the entries of the current call, in caller order, and after a successful
\* decode the tag of blocks[i] is the row of native entry i.
ScratchReset ==
    /\ (Invoked /\ IsEncode) =>
          /\ last.native.block_ptrs =
                [i \in 1..Len(last.in_blocks) |-> last.in_blocks[i].ptr]
          /\ last.native.recovery_block_ptrs =
                [i \in 1..Len(last.in_recovery) |-> last.in_recovery[i].ptr]
    /\ (Invoked /\ IsDecode) =>
          /\ Len(last.native.native_block_ptrs) = Len(last.in_blocks)
          /\ \A i \in 1..Len(last.in_blocks) :
                /\ last.native.native_block_ptrs[i].data = last.in_blocks[i].ptr
                /\ W(last.native.native_block_ptrs[i].row) = last.in_blocks[i].index
    /\ (IsDecode /\ ~Failed) =>
          \A i \in 1..Len(last.blocks) :
             last.blocks[i].index = W(sessions[Main].native_block_ptrs[i].row)

\* C10: for a decode that passes validation, the row handed to the native
\* transform for each block is the block's tag, k + m did not wrap, and the
\* k and m handed over are the caller's.
NoLossyNarrowing ==
    (Invoked /\ IsDecode) =>
        /\ \A i \in 1..Len(last.in_blocks) :
              W(last.native.native_block_ptrs[i].row) = last.in_blocks[i].index
        /\ \A i, j \in 1..Len(last.in_blocks) :
              last.in_blocks[i].index # last.in_blocks[j].index
                 => last.native.native_block_ptrs[i].row
                       # last.native.native_block_ptrs[j].row
        /\ ~Overflows(last.k, last.m)
        /\ last.native.k >= 0 /\ W(last.native.k) = last.k
        /\ last.native.m >= 0 /\ W(last.native.m) = last.m

\* C5: under any interleaving of Cauchy::new calls the native initialization
\* is entered at most once, exactly once if some Cauchy::new completed, and no
\* thread is past the guard or holds a session before it has completed.
InitOnce ==
    /\ init_calls <= 1
    /\ \A t \in Threads :
          (sessions[t].live \/ pc[t] = "construct")
             => /\ init_calls = 1
                /\ tables = "built"
                /\ once = "complete"

InitOnceWitness ==
    \E t, u, v \in Threads :
        /\ t # u /\ u # v /\ t # v
        /\ sessions[t].live
        /\ sessions[u].live
        /\ pc[v] = "call_once"

(***************************************************************************)
(* The encode_decode test (lib.rs 239-267): encode k blocks into m         *)
(* recovery blocks, keep any k of the k + m tagged rows in any order,      *)
(* decode, compare.  Beside it, a second encode of the same data, through  *)
(* either session and into buffers of either prior content, and other      *)
(* calls on the session in between.                                        *)
(***************************************************************************)
TestLens == {W(8), W(16), WBig(Limb, 8)}

Fresh(max_k) == [max_k |-> max_k, live |-> TRUE, block_ptrs |-> <<>>,
                 recovery_block_ptrs |-> <<>>, native_block_ptrs |-> <<>>]

\* a thread with a session of its own
Other == Main + 1

InitTest ==
    /\ once = "complete"
    /\ tables = "built"
    /\ init_calls = 1
    /\ pc = [t \in Threads |-> "idle"]
    /\ arg = [t \in Threads |-> W(0)]
    /\ last = NoLast
    /\ \E k \in 1..MaxBlocks, m \in 2..(MaxBlocks + 1), L \in TestLens :
       \E vals \in [1..k -> Vals] :
          /\ sessions = [t \in Threads |->
                           IF t \in {Main, Other} THEN Fresh(W(k)) ELSE NoSession]
          /\ rt = [pc |-> "start", m |-> m,
                   input |-> [i \in 1..k |-> [ptr |-> i, bytes |-> Filled(L, vals[i])]],
                   kept |-> <<>>, output |-> <<>>, again |-> <<>>, picked |-> <<>>,
                   result |-> "ok"]

\* lib.rs 246: the m output buffers, of the input's length
Outputs(fill) ==
    [i \in 1..rt.m |->
        [ptr |-> Len(rt.input) + i,
         bytes |-> Filled(ByteLen(rt.input[1].bytes), fill)]]

\* lib.rs 249
TestEncode(fill) ==
    /\ rt.pc = "start"
    /\ LET res == encode(sessions[Main], rt.input, Outputs(fill))
       IN  /\ sessions' = [sessions EXCEPT ![Main] = res.sess]
           /\ rt' = [rt EXCEPT !.pc = IF res.result = "ok" THEN "encoded" ELSE "failed",
                               !.output = res.recovery_blocks,
                               !.kept = res.blocks,
                               !.result = res.result]
    /\ UNCHANGED <<once, tables, init_calls, pc, arg, last>>

\* the same data encoded once more
TestEncodeAgain(t, fill) ==
    /\ rt.pc = "encoded"
    /\ LET res == encode(sessions[t], rt.input, Outputs(fill))
       IN  /\ sessions' = [sessions EXCEPT ![t] = res.sess]
           /\ rt' = [rt EXCEPT !.again = res.recovery_blocks,
                               !.kept = res.blocks,
                               !.result = res.result]
    /\ UNCHANGED <<once, tables, init_calls, pc, arg, last>>

\* another call served by the session in between: one that stops part-way
\* through its blocks, or one that runs through
TestOtherCall ==
    /\ rt.pc = "encoded"
    /\ \/ \E L \in {W(8), W(16)} :
             sessions' = [sessions EXCEPT ![Main] =
                 encode(@, <<[ptr |-> 1, bytes |-> Filled(W(8), 1)],
                             [ptr |-> 2, bytes |-> Filled(L, 2)]>>,
                        <<[ptr |-> 3, bytes |-> Filled(W(8), 0)]>>).sess]
       \/ \E tag \in {W(0), W(256)} :
             sessions' = [sessions EXCEPT ![Main] =
                 decode(@, W(1), W(2),
                        <<[index |-> tag, ptr |-> 1, bytes |-> Filled(W(8), 1)]>>,
                        FALSE).sess]
    /\ sessions' # sessions
    /\ UNCHANGED <<once, tables, init_calls, pc, arg, last, rt>>

\* the sequences of cnt distinct rows out of 0..(rows - 1)
Picks(rows, cnt) ==
    {p \in [1..cnt -> 0..(rows - 1)] : \A i, j \in 1..cnt : i # j => p[i] # p[j]}

\* lib.rs 251-255: row i of the data followed by the recovery blocks
TaggedRow(i) ==
    [index |-> W(i), ptr |-> i + 1,
     bytes |-> IF i < Len(rt.input) THEN rt.input[i + 1].bytes
               ELSE rt.output[i - Len(rt.input) + 1].bytes]

\* lib.rs 256-258
TestDecode(pick) ==
    /\ rt.pc = "encoded"
    /\ LET res == decode(sessions[Main], W(Len(rt.input)), W(rt.m),
                         [i \in 1..Len(pick) |-> TaggedRow(pick[i])], FALSE)
       IN  /\ sessions' = [sessions EXCEPT ![Main] = res.sess]
           /\ rt' = [rt EXCEPT !.pc = "decoded", !.picked = res.blocks,
                               !.result = res.result]
    /\ UNCHANGED <<once, tables, init_calls, pc, arg, last>>

NextTest ==
    \/ \E fill \in Fills : TestEncode(fill)
    \/ \E t \in {Main, Other}, fill \in Fills : TestEncodeAgain(t, fill)
    \/ TestOtherCall
    \/ \E pick \in Picks(Len(rt.input) + rt.m, Len(rt.input)) : TestDecode(pick)

SpecTest == InitTest /\ [][NextTest]_vars

\* C1: after encode, any k of the k + m tagged rows in any order decode to
\* blocks whose tags are exactly 0..k-1, the block tagged j holding data
\* block j byte for byte.
RoundTrip ==
    rt.pc = "decoded" =>
        /\ rt.result = "ok"
        /\ \A j \in 1..Len(rt.input) :
              /\ Cardinality({i \in 1..Len(rt.picked) : rt.picked[i].index = W(j - 1)}) = 1
              /\ \A i \in 1..Len(rt.picked) :
                    rt.picked[i].index = W(j - 1)
                       => rt.picked[i].bytes = rt.input[j].bytes

\* C7: encoding the same data with the same m again yields the same recovery
\* bytes, through either session, whatever the buffers held and whatever the
\* session served in between; the data blocks are unchanged.
EncodeDeterminism ==
    (rt.pc = "encoded" /\ rt.again # <<>>) =>
        /\ rt.result = "ok"
        /\ rt.kept = rt.input
        /\ \A i \in 1..rt.m : rt.again[i].bytes = rt.output[i].bytes

====
